---- MODULE Spec2Model ----
(***************************************************************************)
(* Model of the weather-information agent:                                 *)
(*   - OpenWeatherClient (src/clients/openWeatherAPI.py): _get with its    *)
(*     retry loop, _compute_delay, the constructor's normalisation;        *)
(*   - the tools city_to_coords and get_current_weather                    *)
(*     (src/tools/weather_tools.py);                                       *)
(*   - WeatherAgent.invoke (src/agents/weather_agent.py): the tool-calling *)
(*     loop.                                                               *)
(* Every coroutine is cut at its suspension points (await of the model     *)
(* query, of the HTTP GET, of asyncio.sleep); one action is the code that  *)
(* runs between two suspension points.                                     *)
(***************************************************************************)
EXTENDS Integers, Sequences, FiniteSets, TLC

VARIABLES
    weather_api_key,  \* Settings().weather_api_key: "none" when not configured
    app,              \* the application's lifespan and app.state.ow, its shared client
    fn_in,            \* a tool called on its own: its arguments and what the provider answers
    fn_out,           \* a tool called on its own: what it returned or raised
    ow,               \* per task: the OpenWeatherClient in use and the locals of its _get call
    trace,            \* per task (history): attempts and sleeps of the current _get call
    pc,               \* per task: position of WeatherAgent.invoke
    message,          \* per task: invoke's argument
    messages,         \* per task: invoke's local list `messages`
    tokens,           \* per task: input_Tokens, output_Tokens, total_Tokens
    response,         \* per task: invoke's local `response`
    callIdx,          \* per task: position of `for tool_call in response.tool_calls`
    retval,           \* per task: what invoke returned or raised
    hist              \* per task (history): the model queries of the current invocation,
                      \* the tools executed since its last model response, how it ended

vars == <<weather_api_key, app, fn_in, fn_out, ow, trace, pc, message, messages, tokens,
          response, callIdx, retval, hist>>

envVars == <<weather_api_key, app, fn_in, fn_out>>

clientVars == <<ow, trace>>
agentVars == <<pc, message, messages, tokens, response, callIdx, retval, hist>>

Tasks == {"t1", "t2"}

None == "None"

(***************************************************************************)
(* OpenWeatherClient                                                       *)
(***************************************************************************)

\* __init__ defaults (delays are in milliseconds: 0.5 s = 500)
DefaultMaxRetries == 3
DefaultBackoffMs == 500

Max(a, b) == IF a >= b THEN a ELSE b

RECURSIVE Pow2(_)
Pow2(n) == IF n <= 0 THEN 1 ELSE 2 * Pow2(n - 1)

\* _get has neither returned nor raised.
NoResult == [kind |-> "none", exc |-> None, status |-> 0, body |-> None]

\* A client that does not exist (no constructor has run, or it was closed
\* and discarded).
NoClient ==
    [open |-> FALSE, max_retries_arg |-> 0, max_retries |-> 0, backoff_factor |-> 0, pc |-> "none",
     attempt |-> 0, last_exc |-> None, delay |-> 0, result |-> NoResult]

\* (a constructor that stores max_retries as given)
NewClientNoFloor(max_retries, backoff_factor) ==
    [open |-> TRUE, max_retries_arg |-> max_retries, max_retries |-> max_retries,
     backoff_factor |-> backoff_factor, pc |-> "idle",
     attempt |-> 0, last_exc |-> None, delay |-> 0, result |-> NoResult]

\* OpenWeatherClient.__init__ with a configured API key.
NewClient(max_retries, backoff_factor) ==
    [open |-> TRUE, max_retries_arg |-> max_retries, max_retries |-> Max(1, max_retries),
     backoff_factor |-> backoff_factor, pc |-> "idle",
     attempt |-> 0, last_exc |-> None, delay |-> 0, result |-> NoResult]

\* The Retry-After header values of the model and what float() makes of them
\* ("" stands for an absent or empty header; "soon" is not a number).
RetryAfterValues == {"", "10", "0.2", "soon"}
IsFloat(ra) == ra \in {"10", "0.2"}
FloatMs(ra) == IF ra = "10" THEN 10000 ELSE IF ra = "0.2" THEN 200 ELSE 0

\* What one HTTP attempt can produce: a response or an exception of httpx.
CaughtTransport == {"ConnectError", "ReadTimeout", "WriteError", "RemoteProtocolError"}
OtherTransport == {"WriteTimeout", "ConnectTimeout"}
Bodies == {"[]", "data", "not json"}

Resp(status, ra, body) == [exc |-> None, status |-> status, retry_after |-> ra, body |-> body]
Exc(e) == [exc |-> e, status |-> 0, retry_after |-> "", body |-> None]

Statuses == {200, 304, 400, 404, 429, 500, 503}
Outcomes ==
    {Resp(200, "", b) : b \in Bodies}
      \cup {Resp(s, ra, "not json") : s \in Statuses \ {200}, ra \in RetryAfterValues}
      \cup {Exc(e) : e \in CaughtTransport \cup OtherTransport}

\* (a _compute_delay that honours Retry-After on every response)
ComputeDelayAnyStatus(c, attempt, o) ==
    LET base == c.backoff_factor * Pow2(attempt - 1)
    IN IF o.exc = None /\ o.retry_after # "" /\ IsFloat(o.retry_after)
       THEN Max(FloatMs(o.retry_after), base)
       ELSE base

\* _compute_delay(attempt, resp); resp = None is an outcome without status.
ComputeDelay(c, attempt, o) ==
    LET base == c.backoff_factor * Pow2(attempt - 1)
    IN IF o.exc = None /\ o.status = 429 /\ o.retry_after # "" /\ IsFloat(o.retry_after)
       THEN Max(FloatMs(o.retry_after), base)
       ELSE base

\* `resp.status_code in (429,) or 500 <= resp.status_code < 600`
IsRetryStatusAnyError(s) == s \in {429} \/ (400 <= s /\ s < 600)
IsRetryStatus(s) == s \in {429} \/ (500 <= s /\ s < 600)

\* httpx.Response.raise_for_status raises HTTPStatusError unless the status is 2xx.
IsSuccess(s) == 200 <= s /\ s < 300

\* The loop condition `attempt < self.max_retries`.
WhileCond(c) == c.attempt < c.max_retries

\* `while attempt < self.max_retries: attempt += 1`, up to the await of the GET;
\* when the condition is false, the code after the loop.
LoopHead(c) ==
    IF WhileCond(c)
    THEN [c EXCEPT !.attempt = c.attempt + 1, !.pc = "http"]
    ELSE [c EXCEPT !.pc = "done",
                   !.result = [kind |-> "raise",
                               exc |-> IF c.last_exc # None THEN c.last_exc ELSE "RuntimeError",
                               status |-> 0, body |-> None]]

\* `if attempt < self.max_retries` before each of the two sleeps.
AttemptsRemainOffByOne(c) == c.attempt <= c.max_retries
AttemptsRemainAlways(c) == TRUE
AttemptsRemain(c) == c.attempt < c.max_retries

\* One iteration of the loop body once the GET has produced o.
AfterAttempt(c, o) ==
    IF o.exc = None
    THEN IF IsRetryStatus(o.status) /\ AttemptsRemain(c)
         THEN [c EXCEPT !.pc = "sleep", !.delay = ComputeDelay(c, c.attempt, o)]
         ELSE IF ~IsSuccess(o.status)
              THEN [c EXCEPT !.pc = "done",
                             !.result = [kind |-> "raise", exc |-> "HTTPStatusError",
                                         status |-> o.status, body |-> None]]
              ELSE IF o.body = "not json"
                   THEN [c EXCEPT !.pc = "done",
                                  !.result = [kind |-> "raise", exc |-> "JSONDecodeError",
                                              status |-> 0, body |-> None]]
                   ELSE [c EXCEPT !.pc = "done",
                                  !.result = [kind |-> "return", exc |-> None,
                                              status |-> o.status, body |-> o.body]]
    ELSE IF o.exc \in CaughtTransport
         THEN IF AttemptsRemain(c)
              THEN [c EXCEPT !.last_exc = o.exc, !.pc = "sleep",
                             !.delay = ComputeDelay(c, c.attempt, Exc(o.exc))]
              ELSE [c EXCEPT !.last_exc = o.exc, !.pc = "done",
                             !.result = [kind |-> "raise", exc |-> o.exc,
                                         status |-> 0, body |-> None]]
         ELSE [c EXCEPT !.pc = "done",
                        !.result = [kind |-> "raise", exc |-> o.exc,
                                    status |-> 0, body |-> None]]

\* Entry of _get: attempt = 0, last_exc = None, then the loop.
EnterGet(c) ==
    LoopHead([c EXCEPT !.attempt = 0, !.last_exc = None, !.delay = 0, !.result = NoResult])

AttemptEvent(o) ==
    [ev |-> "attempt", exc |-> o.exc, status |-> o.status, retry_after |-> o.retry_after,
     delay |-> 0]
SleepEvent(d) == [ev |-> "sleep", exc |-> None, status |-> 0, retry_after |-> "", delay |-> d]

\* The awaited GET of task t's _get completes with outcome o.
HttpRespond(t, o) ==
    /\ ow[t].pc = "http"
    /\ ow' = [ow EXCEPT ![t] = AfterAttempt(ow[t], o)]
    /\ trace' = [trace EXCEPT ![t] = Append(trace[t], AttemptEvent(o))]
    /\ UNCHANGED <<envVars, agentVars>>

\* The awaited asyncio.sleep(delay) of task t's _get completes: `continue`.
BackoffSleep(t) ==
    /\ ow[t].pc = "sleep"
    /\ ow' = [ow EXCEPT ![t] = LoopHead(ow[t])]
    /\ trace' = [trace EXCEPT ![t] = Append(trace[t], SleepEvent(ow[t].delay))]
    /\ UNCHANGED <<envVars, agentVars>>


(***************************************************************************)
(* Messages, model responses and the tool registry                         *)
(***************************************************************************)

\* The most tool-call requests one model response carries, and the most
\* model queries one invocation makes, in the model.
MaxCalls == 2
MaxQueries == 3

NoUsage == [input_tokens |-> 0, output_tokens |-> 0, total_tokens |-> 0]

Msg(role, content, id, calls, usage) ==
    [role |-> role, content |-> content, tool_call_id |-> id, tool_calls |-> calls,
     usage_metadata |-> usage]

Text(s) == [text |-> s]

SystemMessage(content) == Msg("system", Text(content), 0, <<>>, NoUsage)
HumanMessage(content) == Msg("human", Text(content), 0, <<>>, NoUsage)
\* ToolMessage(content=str(result), tool_call_id=tool_id): the text of a dict
\* shows its keys and values, so the content is kept as the mapping itself.
ToolMessage(result, id) == Msg("tool", result, id, <<>>, NoUsage)
AIMessage(calls, usage) ==
    Msg("ai", Text(IF calls = <<>> THEN "answer" ELSE ""), 0, calls, usage)

system_prompt == "You are a helpful weather assistant."

\* TOOL_SYSTEM_PROMPTS and get_tool_prompt
PromptedTools == {"city_to_coords", "get_current_weather"}
get_tool_promptGenericOnly(tool_name) ==
    "Process the tool result and provide a helpful response to the user."
get_tool_prompt(tool_name) ==
    IF tool_name \in PromptedTools
    THEN "guidance for " \o tool_name
    ELSE "Process the tool result and provide a helpful response to the user."

\* self.tools / self.tool_map of WeatherAgent.__init__
tool_map == {"city_to_coords", "get_current_weather"}

\* The names a model response may ask for: the registered tools and one
\* name that the registry does not hold.
RequestedNames == tool_map \cup {"get_forecast"}

ArgsOf(name) ==
    IF name = "city_to_coords" THEN [city |-> "Paris"]
    ELSE [lat |-> "48.85", lon |-> "2.35", units |-> "metric"]

ToolCall(name, id) == [name |-> name, args |-> ArgsOf(name), id |-> id]

\* Call ids are unique within a response; the model numbers its requests
\* upwards or downwards, so that the order of the ids is not the order of
\* the numbers.
IdOrders(n) == {[i \in 1..n |-> i], [i \in 1..n |-> n + 1 - i]}
ToolCallLists ==
    UNION {{[i \in 1..n |-> ToolCall(names[i], ids[i])] :
              names \in [1..n -> RequestedNames], ids \in IdOrders(n)}
           : n \in 0..MaxCalls}

Usages ==
    {[input_tokens |-> 1, output_tokens |-> 1, total_tokens |-> 2],
     [input_tokens |-> 2, output_tokens |-> 1, total_tokens |-> 4]}

LLMResponses == {AIMessage(calls, u) : calls \in ToolCallLists, u \in Usages}

UserMessages == {"weather in Paris?", "and tomorrow?"}

(***************************************************************************)
(* The tools (src/tools/weather_tools.py)                                  *)
(***************************************************************************)

\* dict.get(key, default)
Get(d, k, default) == IF k \in DOMAIN d THEN d[k] ELSE default

\* The JSON documents behind the response bodies of the model: "[]" is an
\* empty JSON list, "data" a full answer of the endpoint asked.
GeocodeJson(body) ==
    IF body = "[]" THEN <<>>
    ELSE <<[name |-> "Paris", state |-> "Ile-de-France", country |-> "FR",
            lat |-> "48.85", lon |-> "2.35"]>>

WeatherJson(body) ==
    [main |-> [temp |-> "21.5", feels_like |-> "21.0", humidity |-> "40", pressure |-> "1015"],
     weather |-> <<[main |-> "Clouds", description |-> "broken clouds"]>>,
     wind |-> [speed |-> "3.1", deg |-> "250"],
     clouds |-> [all |-> "75"],
     visibility |-> "10000"]

Returned(value) == [kind |-> "return", value |-> value, exc |-> None]
Raised(exc) == [kind |-> "raise", value |-> [error |-> exc], exc |-> exc]

\* str(e) of the exception that _get raised
ExcText(res) ==
    IF res.exc = "HTTPStatusError" THEN "HTTPStatusError " \o ToString(res.status) ELSE res.exc

\* Python's truth value of a JSON string or null.
Truthy(v) == v \notin {None, ""}

\* A Python string as the sequence of the pieces it was put together from:
\* the empty string is the empty sequence, `+=` is concatenation.
Str(v) == IF v = "" THEN <<>> ELSE <<v>>

\* city_to_coords from `if not results` on, given the parsed geocoding answer.
\* `None += "..."` raises TypeError when the provider sends a null name.
CityResult(args, results) ==
    IF results = <<>>
    THEN Returned([error |-> "Could not find coordinates for " \o args.city,
                   lat |-> None, lon |-> None, normalized_name |-> None])
    ELSE LET place == results[1]
             n0 == Get(place, "name", "")
             hasState == Truthy(Get(place, "state", None))
             hasCountry == Truthy(Get(place, "country", None))
         IN IF n0 = None
            THEN IF hasState \/ hasCountry
                 THEN Raised("TypeError")
                 ELSE Returned([lat |-> place.lat, lon |-> place.lon, normalized_name |-> None])
            ELSE LET n1 == IF hasState THEN Str(n0) \o <<", ", place.state>> ELSE Str(n0)
                     n2 == IF hasCountry THEN n1 \o <<", ", place.country>> ELSE n1
                 IN Returned([lat |-> place.lat, lon |-> place.lon, normalized_name |-> n2])

\* city_to_coords after `await client.geocode_direct(...)`: no except clause,
\* an exception of the client leaves the tool.
city_to_coords(args, res) ==
    IF res.kind = "raise" THEN Raised(res.exc)
    ELSE CityResult(args, GeocodeJson(res.body))

WeatherError(text) ==
    [error |-> "Failed to fetch weather data: " \o text,
     temp |-> None, feels_like |-> None, condition |-> None, description |-> None,
     wind_speed |-> None, humidity |-> None, clouds |-> None]

\* The body of the try of get_current_weather from `main = raw.get(...)` on,
\* given the parsed answer: `[...][0]` raises IndexError on an empty list.
NormalizeWeather(raw, units) ==
    IF Get(raw, "weather", <<<<>>>>) = <<>>
    THEN Raised("list index out of range")
    ELSE LET main == Get(raw, "main", <<>>)
             weather == Get(raw, "weather", <<<<>>>>)[1]
             wind == Get(raw, "wind", <<>>)
             clouds == Get(raw, "clouds", <<>>)
         IN Returned(
              [temp |-> Get(main, "temp", None),
               temp_unit |-> IF units = "metric" THEN "C"
                             ELSE IF units = "imperial" THEN "F" ELSE "K",
               feels_like |-> Get(main, "feels_like", None),
               condition |-> Get(weather, "main", "Unknown"),
               description |-> Get(weather, "description", ""),
               wind_speed |-> Get(wind, "speed", None),
               wind_unit |-> IF units = "metric" THEN "m/s"
                             ELSE IF units = "imperial" THEN "mph" ELSE "m/s",
               wind_deg |-> Get(wind, "deg", None),
               humidity |-> Get(main, "humidity", None),
               clouds |-> Get(clouds, "all", None),
               pressure |-> Get(main, "pressure", None),
               visibility |-> Get(raw, "visibility", None)])

\* `except Exception as e`: whatever the try raised becomes the error mapping.
CaughtWeather(out) ==
    IF out.kind = "raise" THEN Returned(WeatherError(out.exc)) ELSE out

\* get_current_weather after `await client.current_weather(...)`: every
\* exception is turned into the error mapping.
get_current_weather(args, res) ==
    IF res.kind = "raise" THEN Returned(WeatherError(ExcText(res)))
    ELSE IF res.body = "[]"
         THEN Returned(WeatherError("'list' object has no attribute 'get'"))
         ELSE CaughtWeather(NormalizeWeather(WeatherJson(res.body), args.units))

\* The tool's code from the return or raise of _get to the tool's own end.
ToolResult(name, args, res) ==
    IF name = "city_to_coords" THEN city_to_coords(args, res)
    ELSE get_current_weather(args, res)

\* `OpenWeatherClient()` in a tool when no API key is configured raises
\* ValueError: outside any try in city_to_coords, inside it in get_current_weather.
ToolWithoutKey(name, args) ==
    IF name = "city_to_coords" THEN Raised("ValueError")
    ELSE Returned(WeatherError("OpenWeather API key not configured (weather_api_key)."))

(***************************************************************************)
(* The forecast tool (src/tools/forecast_tools.py)                         *)
(*                                                                         *)
(* Times are whole hours since 1970-01-01 00:00 UTC, a Thursday.           *)
(* datetime.utcnow() is the UTC wall clock; datetime.fromtimestamp(dt) is  *)
(* the wall clock of the machine's time zone, tz hours ahead of UTC.       *)
(***************************************************************************)

\* The public and private methods that class OpenWeatherClient defines.
ClientMethods ==
    {"aclose", "__aenter__", "__aexit__", "_get", "_compute_delay", "geocode_direct",
     "current_weather"}

HourOf(h) == h % 24
MidnightOf(h) == h - (h % 24)
\* datetime.weekday(): Monday is 0
WeekdayOf(h) == ((h \div 24) + 3) % 7
fromtimestamp(dt, tz) == dt + tz

\* `if tonight_start <= datetime.fromtimestamp(entry["dt"]) <= tonight_end`
InTonight(now, local) ==
    LET tonight_start == IF HourOf(now) >= 18 THEN now ELSE MidnightOf(now) + 18
        tonight_end == MidnightOf(now + 24) + 6
    IN tonight_start <= local /\ local <= tonight_end

\* `if tomorrow_start <= datetime.fromtimestamp(entry["dt"]) < tomorrow_end`
InTomorrow(now, local) ==
    LET tomorrow_start == MidnightOf(now + 24)
        tomorrow_end == tomorrow_start + 24
    IN tomorrow_start <= local /\ local < tomorrow_end

\* `if weekend_start <= datetime.fromtimestamp(entry["dt"]) < weekend_end`
InWeekend(now, local) ==
    LET d0 == (5 - WeekdayOf(now)) % 7
        days_until_saturday == IF d0 = 0 /\ HourOf(now) >= 12 THEN 7 ELSE d0
        weekend_start == MidnightOf(now + 24 * days_until_saturday)
        weekend_end == weekend_start + 48
    IN weekend_start <= local /\ local < weekend_end

\* `if datetime.fromtimestamp(entry["dt"]) <= end_time`
InNext3Days(now, local) == local <= now + 72

InTimeframe(timeframe, now, local) ==
    IF timeframe = "tonight" THEN InTonight(now, local)
    ELSE IF timeframe = "tomorrow" THEN InTomorrow(now, local)
    ELSE IF timeframe = "weekend" THEN InWeekend(now, local)
    ELSE InNext3Days(now, local)

\* One element of `normalized`
NormalizeEntry(entry, units, tz) ==
    LET main == Get(entry, "main", <<>>)
        weather == Get(entry, "weather", <<<<>>>>)[1]
        wind == Get(entry, "wind", <<>>)
    IN [datetime |-> fromtimestamp(entry.dt, tz),
        timestamp |-> entry.dt,
        temp |-> Get(main, "temp", None),
        temp_unit |-> IF units = "metric" THEN "C" ELSE IF units = "imperial" THEN "F" ELSE "K",
        feels_like |-> Get(main, "feels_like", None),
        temp_min |-> Get(main, "temp_min", None),
        temp_max |-> Get(main, "temp_max", None),
        condition |-> Get(weather, "main", "Unknown"),
        description |-> Get(weather, "description", ""),
        precipitation_prob |-> Get(entry, "pop", 0) * 100,
        wind_speed |-> Get(wind, "speed", None),
        humidity |-> Get(main, "humidity", None),
        clouds |-> Get(Get(entry, "clouds", <<>>), "all", None)]

ForecastError(text, timeframe) ==
    [error |-> "Failed to fetch forecast data: " \o text,
     timeframe |-> timeframe, entries |-> <<>>, count |-> 0]

\* The body of the try of get_forecast from `forecast_list = raw.get(...)` on.
ForecastBody(args, raw, now, tz) ==
    LET forecast_list == Get(raw, "list", <<>>) IN
    IF forecast_list = <<>>
    THEN [error |-> "No forecast data available", entries |-> <<>>]
    ELSE LET filtered_entries ==
                 SelectSeq(forecast_list,
                           LAMBDA e : InTimeframe(args.timeframe, now, fromtimestamp(e.dt, tz)))
         IN IF \E i \in 1..Len(filtered_entries) :
                   Get(filtered_entries[i], "weather", <<<<>>>>) = <<>>
            THEN ForecastError("list index out of range", args.timeframe)
            ELSE [timeframe |-> args.timeframe,
                  entries |-> [i \in 1..Len(filtered_entries) |->
                                 NormalizeEntry(filtered_entries[i], args.units, tz)],
                  count |-> Len(filtered_entries)]

\* get_forecast: the client is constructed, then `client.forecast_5day` is
\* looked up on it; raw is what the provider's forecast endpoint would answer.
get_forecast(key, args, raw, now, tz) ==
    IF key = "none"
    THEN Returned(ForecastError("OpenWeather API key not configured (weather_api_key).",
                                args.timeframe))
    ELSE IF "forecast_5day" \notin ClientMethods
         THEN Returned(ForecastError(
                  "'OpenWeatherClient' object has no attribute 'forecast_5day'", args.timeframe))
         ELSE Returned(ForecastBody(args, raw, now, tz))

(***************************************************************************)
(* The tools called on their own                                           *)
(***************************************************************************)

\* What `await client.<endpoint>(...)` gives the tool: the parsed JSON
\* document, or the exception that _get raised.
Json(value) == [kind |-> "json", value |-> value, exc |-> None, status |-> 0]
Failure(exc, status) == [kind |-> "raise", value |-> <<>>, exc |-> exc, status |-> status]

ToolCallOf(fn, args, up, now, tz) == [fn |-> fn, args |-> args, up |-> up, now |-> now, tz |-> tz]

\* A geocoding place; each of name, state and country is "absent" (no such
\* key), None (JSON null) or a string.
PlaceOf(n, s, c) ==
    LET v == [name |-> n, state |-> s, country |-> c, lat |-> "31.1", lon |-> "-97.3"]
    IN [k \in {f \in DOMAIN v : v[f] # "absent"} |-> v[k]]

Places ==
    {PlaceOf(n, s, c) : n \in {"absent", None, "", "Paris"}, s \in {"absent", None, "", "Texas"},
                        c \in {"absent", None, "", "US", "FR"}}

UpstreamFailures == {Failure("HTTPStatusError", 404), Failure("ConnectError", 0)}

CityCalls ==
    {ToolCallOf("city_to_coords", [city |-> "Paris"], up, 0, 0) :
       up \in {Json(<<>>)} \cup {Json(<<p>>) : p \in Places} \cup UpstreamFailures}

\* A current-weather document; each top-level field is "absent", "empty"
\* ({} or []), "bare" (a dict or list element without sub-fields) or "full".
RawWeatherOf(m, w, wi, c, vis) ==
    LET v == [main |-> IF m = "full"
                       THEN [temp |-> "21.5", feels_like |-> "21.0", humidity |-> "40",
                             pressure |-> "1015"]
                       ELSE <<>>,
              weather |-> IF w = "full"
                          THEN <<[main |-> "Clouds", description |-> "broken clouds"]>>
                          ELSE IF w = "bare" THEN <<<<>>>> ELSE <<>>,
              wind |-> IF wi = "full" THEN [speed |-> "3.1", deg |-> "250"] ELSE <<>>,
              clouds |-> IF c = "full" THEN [all |-> "75"] ELSE <<>>,
              visibility |-> "10000"]
        a == [main |-> m, weather |-> w, wind |-> wi, clouds |-> c, visibility |-> vis]
    IN [k \in {f \in DOMAIN v : a[f] # "absent"} |-> v[k]]

RawWeathers ==
    {RawWeatherOf(m, w, wi, c, vis) :
       m \in {"absent", "empty", "full"}, w \in {"absent", "empty", "bare", "full"},
       wi \in {"absent", "empty", "full"}, c \in {"absent", "empty", "full"},
       vis \in {"absent", "full"}}

UnitSystems == {"metric", "imperial", "standard"}

WeatherCalls ==
    {ToolCallOf("get_current_weather", [lat |-> "31.1", lon |-> "-97.3", units |-> u], up, 0, 0) :
       u \in UnitSystems, up \in {Json(r) : r \in RawWeathers} \cup UpstreamFailures}

\* Forecast lists: ForecastLen entries three hours apart from hour h0 on.
ForecastLen == 16

ForecastEntry(dt) ==
    [dt |-> dt,
     main |-> [temp |-> "18.0", feels_like |-> "17.5", temp_min |-> "16.0", temp_max |-> "19.0",
               humidity |-> "55"],
     weather |-> <<[main |-> "Rain", description |-> "light rain"]>>,
     wind |-> [speed |-> "4.0"], clouds |-> [all |-> "90"], pop |-> 1]

ForecastList(h0, n) == [i \in 1..n |-> ForecastEntry(h0 + 3 * (i - 1))]

Timeframes == {"tonight", "tomorrow", "weekend", "next_3_days"}
Nows == {10, 20, 61}
TimeZones == {0, 2}

ForecastCalls ==
    {ToolCallOf("get_forecast", [lat |-> "31.1", lon |-> "-97.3", timeframe |-> tf, units |-> u],
                Json([list |-> l]), now, tz) :
       tf \in Timeframes, u \in {"metric", "imperial"}, now \in Nows, tz \in TimeZones,
       l \in {<<>>} \cup {ForecastList(h0, ForecastLen) : h0 \in {12, 21, 63}}}

\* city_to_coords as a whole, on a parsed answer
CityTool(key, args, up) ==
    IF key = "none" THEN ToolWithoutKey("city_to_coords", args)
    ELSE IF up.kind = "raise" THEN Raised(up.exc)
    ELSE CityResult(args, up.value)

\* get_current_weather as a whole, on a parsed answer
WeatherTool(key, args, up) ==
    IF key = "none" THEN ToolWithoutKey("get_current_weather", args)
    ELSE IF up.kind = "raise" THEN Returned(WeatherError(ExcText(up)))
    ELSE CaughtWeather(NormalizeWeather(up.value, args.units))

(***************************************************************************)
(* WeatherAgent.invoke (src/agents/weather_agent.py)                       *)
(***************************************************************************)

NoMsg == Msg("none", Text(""), 0, <<>>, NoUsage)
NoTokens == [input |-> 0, output |-> 0, total |-> 0]
NoRet == [kind |-> "none", value |-> NoMsg, exc |-> None]
NoHist ==
    [queries |-> 0, usages |-> [u \in Usages |-> 0], turnExecs |-> 0, llmErrors |-> 0,
     toolTurns |-> 0, ended |-> FALSE, endQueries |-> 0, endExecs |-> 0]

\* History: the invocation ends now (a return or an exception of invoke).
Ended(h) == [h EXCEPT !.ended = TRUE, !.endQueries = h.queries, !.endExecs = h.turnExecs]

\* invoke as it would be with the tallies kept on the agent object that
\* all requests share.
InvokeSharedTally(t, m) ==
    /\ pc[t] \in {"idle", "returned", "failed"}
    /\ pc' = [pc EXCEPT ![t] = "llm"]
    /\ message' = [message EXCEPT ![t] = m]
    /\ messages' = [messages EXCEPT ![t] = <<SystemMessage(system_prompt), HumanMessage(m)>>]
    /\ tokens' = [u \in Tasks |-> NoTokens]
    /\ response' = [response EXCEPT ![t] = NoMsg]
    /\ callIdx' = [callIdx EXCEPT ![t] = 0]
    /\ retval' = [retval EXCEPT ![t] = NoRet]
    /\ hist' = [hist EXCEPT ![t] = NoHist]
    /\ UNCHANGED <<envVars, clientVars>>

\* invoke(message) up to the first `await self.llm_with_tools.ainvoke(messages)`.
Invoke(t, m) ==
    /\ pc[t] \in {"idle", "returned", "failed"}
    /\ pc' = [pc EXCEPT ![t] = "llm"]
    /\ message' = [message EXCEPT ![t] = m]
    /\ messages' = [messages EXCEPT ![t] = <<SystemMessage(system_prompt), HumanMessage(m)>>]
    /\ tokens' = [tokens EXCEPT ![t] = NoTokens]
    /\ response' = [response EXCEPT ![t] = NoMsg]
    /\ callIdx' = [callIdx EXCEPT ![t] = 0]
    /\ retval' = [retval EXCEPT ![t] = NoRet]
    /\ hist' = [hist EXCEPT ![t] = NoHist]
    /\ UNCHANGED <<envVars, clientVars>>

\* `if not response.tool_calls`
IsFinalInverted(r) == r.tool_calls # <<>>
IsFinal(r) == r.tool_calls = <<>>

\* `for tool_call in response.tool_calls` after idx iterations: the next
\* iteration, or back to the model query when the list is exhausted.
ForLoop(t, idx, calls) ==
    IF idx < Len(calls)
    THEN /\ pc' = [pc EXCEPT ![t] = "tools"]
         /\ callIdx' = [callIdx EXCEPT ![t] = idx + 1]
    ELSE /\ pc' = [pc EXCEPT ![t] = "llm"]
         /\ callIdx' = [callIdx EXCEPT ![t] = idx]

\* The awaited model query returns r: token accumulation, the rebuild of
\* `messages`, and the return when r carries no tool calls.
\* (a loop that appended the response to the conversation it already had)
RebuildAppending(msgs, m, r) == Append(msgs, r)

\* `messages = [SystemMessage(...), HumanMessage(content=message), response]`
\* after each model query: the list is built anew, msgs is not used.
Rebuild(msgs, m, r) == <<SystemMessage(system_prompt), HumanMessage(m), r>>

LLMRespond(t, r) ==
    /\ pc[t] = "llm"
    /\ response' = [response EXCEPT ![t] = r]
    /\ tokens' = [tokens EXCEPT ![t] =
                    [input |-> @.input + r.usage_metadata.input_tokens,
                     output |-> @.output + r.usage_metadata.output_tokens,
                     total |-> @.total + r.usage_metadata.total_tokens]]
    /\ messages' = [messages EXCEPT ![t] = Rebuild(@, message[t], r)]
    /\ LET h == [hist[t] EXCEPT !.queries = @ + 1, !.turnExecs = 0,
                                !.usages[r.usage_metadata] = @ + 1]
       IN IF IsFinal(r)
          THEN /\ pc' = [pc EXCEPT ![t] = "returned"]
               /\ retval' = [retval EXCEPT ![t] = [kind |-> "return", value |-> r, exc |-> None]]
               /\ hist' = [hist EXCEPT ![t] = Ended(h)]
               /\ UNCHANGED callIdx
          ELSE /\ ForLoop(t, 0, r.tool_calls)
               /\ hist' = [hist EXCEPT ![t] = [h EXCEPT !.toolTurns = @ + 1]]
               /\ UNCHANGED retval
    /\ UNCHANGED <<envVars, clientVars, message>>

\* (a loop that swallowed the failure of the model query and queried again)
LLMFailRetried(t) ==
    /\ pc[t] = "llm"
    /\ hist' = [hist EXCEPT ![t] = [@ EXCEPT !.queries = @ + 1, !.llmErrors = @ + 1]]
    /\ UNCHANGED <<envVars, clientVars, pc, message, messages, tokens, response,
                   callIdx, retval>>

\* The awaited model query raises: nothing in invoke catches it.
LLMFail(t) ==
    /\ pc[t] = "llm"
    /\ pc' = [pc EXCEPT ![t] = "failed"]
    /\ retval' = [retval EXCEPT ![t] = [kind |-> "raise", value |-> NoMsg, exc |-> "LLMError"]]
    /\ hist' = [hist EXCEPT ![t] =
                  Ended([@ EXCEPT !.queries = @ + 1, !.llmErrors = @ + 1])]
    /\ UNCHANGED <<envVars, clientVars, message, messages, tokens, response, callIdx>>

\* The end of one iteration of the for loop.
NextCall(t) == ForLoop(t, callIdx[t], response[t].tool_calls)

\* `result = await tool.ainvoke(tool_args)` has produced out: the two appends
\* to `messages`, or the exception leaving invoke.
ToolDone(t, call, out) ==
    IF out.kind = "raise"
    THEN /\ pc' = [pc EXCEPT ![t] = "failed"]
         /\ retval' = [retval EXCEPT ![t] = [kind |-> "raise", value |-> NoMsg, exc |-> out.exc]]
         /\ hist' = [hist EXCEPT ![t] = Ended([@ EXCEPT !.turnExecs = @ + 1])]
         /\ UNCHANGED <<messages, callIdx>>
    ELSE /\ messages' = [messages EXCEPT ![t] =
                           Append(Append(@, SystemMessage(get_tool_prompt(call.name))),
                                  ToolMessage(out.value, call.id))]
         /\ hist' = [hist EXCEPT ![t].turnExecs = @ + 1]
         /\ NextCall(t)
         /\ UNCHANGED retval

\* One iteration of the for loop up to the first await inside the tool: the
\* registry lookup, and for a registered tool the construction of its client
\* and the entry of _get.
ToolDispatch(t) ==
    /\ pc[t] = "tools"
    /\ LET call == response[t].tool_calls[callIdx[t]] IN
       IF call.name \notin tool_map
       THEN /\ NextCall(t)
            /\ UNCHANGED <<clientVars, messages, retval, hist>>
       ELSE IF weather_api_key = "none"
            THEN /\ ToolDone(t, call, ToolWithoutKey(call.name, call.args))
                 /\ UNCHANGED clientVars
            ELSE /\ pc' = [pc EXCEPT ![t] = "tool"]
                 /\ ow' = [ow EXCEPT ![t] =
                             EnterGet(NewClient(DefaultMaxRetries, DefaultBackoffMs))]
                 /\ trace' = [trace EXCEPT ![t] = <<>>]
                 /\ UNCHANGED <<messages, callIdx, retval, hist>>
    /\ UNCHANGED <<envVars, message, tokens, response>>

\* (an exit of the `async with` block that left the client open)
aexitLeavesOpen(c) == c

\* __aexit__ at the end of the tool's `async with` block, on return and on
\* exception alike: `await self.aclose()` closes the client.
aexit(c) == [c EXCEPT !.open = FALSE]

\* _get has returned or raised inside the tool: the tool leaves its
\* `async with` block, up to the await inside aclose().  Closing the pooled
\* connection gives control back to the event loop, so the task is suspended
\* with its client closed and nothing appended to `messages` yet.
ToolClose(t) ==
    /\ pc[t] = "tool"
    /\ ow[t].pc = "done"
    /\ pc' = [pc EXCEPT ![t] = "closing"]
    /\ ow' = [ow EXCEPT ![t] = aexit(@)]
    /\ UNCHANGED <<envVars, trace, message, messages, tokens, response, callIdx, retval, hist>>

\* aclose() has completed: the rest of the tool, which drops its client, then
\* the rest of the loop iteration (the two appends, or the exception).
ToolFinish(t) ==
    /\ pc[t] = "closing"
    /\ LET call == response[t].tool_calls[callIdx[t]] IN
       ToolDone(t, call, ToolResult(call.name, call.args, ow[t].result))
    /\ ow' = [ow EXCEPT ![t] = NoClient]
    /\ trace' = [trace EXCEPT ![t] = <<>>]
    /\ UNCHANGED <<envVars, message, tokens, response>>

(***************************************************************************)
(* The application's lifespan (src/main.py)                                *)
(***************************************************************************)

Starting == [phase |-> "starting", ow |-> "unset", opened |-> 0, closed |-> 0]

\* lifespan up to `yield`: app.state.ow is a client, or None when the
\* constructor raised ValueError for the missing API key.
AfterStartup(key) ==
    IF key = "none"
    THEN [phase |-> "serving", ow |-> "none", opened |-> 0, closed |-> 0]
    ELSE [phase |-> "serving", ow |-> "open", opened |-> 1, closed |-> 0]

\* lifespan after `yield`: `if app.state.ow: await app.state.ow.aclose()`.
AfterShutdown(a) ==
    IF a.ow = "open"
    THEN [a EXCEPT !.phase = "stopped", !.ow = "closed", !.closed = @ + 1]
    ELSE [a EXCEPT !.phase = "stopped"]

Startup ==
    /\ app.phase = "starting"
    /\ app' = AfterStartup(weather_api_key)
    /\ UNCHANGED <<weather_api_key, fn_in, fn_out, clientVars, agentVars>>

\* The server stops once no chat request is running.
Shutdown ==
    /\ app.phase = "serving"
    /\ \A t \in Tasks : pc[t] \in {"idle", "returned", "failed"}
    /\ app' = AfterShutdown(app)
    /\ UNCHANGED <<weather_api_key, fn_in, fn_out, clientVars, agentVars>>

\* No tool is being called on its own.
NoToolCall == [fn |-> "none"]
NoToolOut == [kind |-> "none"]

(***************************************************************************)
(* Specifications                                                          *)
(***************************************************************************)

\* The application is serving and no tool is called on its own.
Serving ==
    /\ app = AfterStartup(weather_api_key)
    /\ fn_in = NoToolCall
    /\ fn_out = NoToolOut

IdleAgent ==
    /\ pc = [t \in Tasks |-> "idle"]
    /\ message = [t \in Tasks |-> None]
    /\ messages = [t \in Tasks |-> <<>>]
    /\ tokens = [t \in Tasks |-> NoTokens]
    /\ response = [t \in Tasks |-> NoMsg]
    /\ callIdx = [t \in Tasks |-> 0]
    /\ retval = [t \in Tasks |-> NoRet]
    /\ hist = [t \in Tasks |-> NoHist]

\* The outcomes of an HTTP attempt that the agent's runs draw from.
AgentOutcomes ==
    {Resp(200, "", "data"), Resp(200, "", "[]"), Resp(404, "", "not json"),
     Resp(503, "", "not json"), Exc("ConnectError")}

\* One task serving chat requests one after the other.
Init ==
    /\ weather_api_key \in {"none", "key"}
    /\ Serving
    /\ ow = [t \in Tasks |-> NoClient]
    /\ trace = [t \in Tasks |-> <<>>]
    /\ IdleAgent

Next ==
    \/ \E m \in UserMessages : Invoke("t1", m)
    \/ \E r \in LLMResponses : hist["t1"].queries < MaxQueries /\ LLMRespond("t1", r)
    \/ hist["t1"].queries < MaxQueries /\ LLMFail("t1")
    \/ ToolDispatch("t1")
    \/ \E o \in AgentOutcomes : pc["t1"] = "tool" /\ HttpRespond("t1", o)
    \/ pc["t1"] = "tool" /\ BackoffSleep("t1")
    \/ ToolClose("t1")
    \/ ToolFinish("t1")

Spec == Init /\ [][Next]_vars

\* The client on its own: a caller holds one client, constructed with any
\* max_retries argument, and calls _get on it again and again.
RetryArgs == {-1, 0, 1, 2, 3, 4}
BackoffArgs == {500, 1000}

GetCall(t) ==
    /\ ow[t].open /\ ow[t].pc \in {"idle", "done"}
    /\ ow' = [ow EXCEPT ![t] = EnterGet(ow[t])]
    /\ trace' = [trace EXCEPT ![t] = <<>>]
    /\ UNCHANGED <<envVars, agentVars>>

InitGet ==
    /\ weather_api_key = "key"
    /\ Serving
    /\ \E m \in RetryArgs, b \in BackoffArgs :
         ow = [t \in Tasks |-> IF t = "t1" THEN NewClient(m, b) ELSE NoClient]
    /\ trace = [t \in Tasks |-> <<>>]
    /\ IdleAgent

NextGet ==
    \/ GetCall("t1")
    \/ \E o \in Outcomes : HttpRespond("t1", o)
    \/ BackoffSleep("t1")

SpecGet == InitGet /\ [][NextGet]_vars

\* A long conversation: the model answers from a small set of responses and
\* the provider from a small set of outcomes, for up to LongRun model queries.
LongRun == 9

LoopResponses ==
    {AIMessage(calls, [input_tokens |-> 1, output_tokens |-> 1, total_tokens |-> 2]) :
       calls \in {<<>>, <<ToolCall("city_to_coords", 1)>>, <<ToolCall("get_forecast", 1)>>}}

LoopOutcomes == {Resp(200, "", "data"), Resp(503, "", "not json")}

InitLoop ==
    /\ weather_api_key = "key"
    /\ Serving
    /\ ow = [t \in Tasks |-> NoClient]
    /\ trace = [t \in Tasks |-> <<>>]
    /\ IdleAgent

NextLoop ==
    \/ \E m \in UserMessages : Invoke("t1", m)
    \/ \E r \in LoopResponses : hist["t1"].queries < LongRun /\ LLMRespond("t1", r)
    \/ hist["t1"].queries < LongRun /\ LLMFail("t1")
    \/ ToolDispatch("t1")
    \/ \E o \in LoopOutcomes : pc["t1"] = "tool" /\ HttpRespond("t1", o)
    \/ pc["t1"] = "tool" /\ BackoffSleep("t1")
    \/ ToolClose("t1")
    \/ ToolFinish("t1")

SpecLoop == InitLoop /\ [][NextLoop]_vars

\* Two chat requests served at once: the event loop runs either task from
\* one `await` to the next, in any order.
ConcQueries == 2

ConcResponses ==
    {AIMessage(<<>>, [input_tokens |-> 1, output_tokens |-> 1, total_tokens |-> 2]),
     AIMessage(<<ToolCall("city_to_coords", 1)>>,
               [input_tokens |-> 2, output_tokens |-> 1, total_tokens |-> 4])}

InitConc ==
    /\ weather_api_key = "key"
    /\ Serving
    /\ ow = [t \in Tasks |-> NoClient]
    /\ trace = [t \in Tasks |-> <<>>]
    /\ IdleAgent

NextConc ==
    \/ \E t \in Tasks, m \in UserMessages : Invoke(t, m)
    \/ \E t \in Tasks, r \in ConcResponses : hist[t].queries < ConcQueries /\ LLMRespond(t, r)
    \/ \E t \in Tasks : hist[t].queries < ConcQueries /\ LLMFail(t)
    \/ \E t \in Tasks : ToolDispatch(t)
    \/ \E t \in Tasks, o \in LoopOutcomes : pc[t] = "tool" /\ HttpRespond(t, o)
    \/ \E t \in Tasks : pc[t] = "tool" /\ BackoffSleep(t)
    \/ \E t \in Tasks : ToolClose(t)
    \/ \E t \in Tasks : ToolFinish(t)

SpecConc == InitConc /\ [][NextConc]_vars

\* One tool called on its own, on every input of the bounded sets.  The
\* tool is a coroutine: it is suspended at the GET of every attempt, at every
\* backoff sleep and at the aclose() of its client, and runs in between.
ToolRunning == [kind |-> "running"]

\* What the GET is answered for the provider behaviour `up` of the call.
ProviderAnswer(up) ==
    IF up.kind = "json" THEN Resp(200, "", "data")
    ELSE IF up.exc = "HTTPStatusError" THEN Resp(up.status, "", "not json")
    ELSE Exc(up.exc)

\* What the endpoint method gave the tool: the parsed document behind the
\* body that _get returned, or the exception that _get raised.
EndpointResult(res, up) == IF res.kind = "raise" THEN Failure(res.exc, res.status) ELSE up

\* The call of a tool up to its first await: without a key the constructor
\* raises at once; otherwise the client is built and _get awaits the GET.
CallTool(fn) ==
    /\ fn_in.fn = fn
    /\ fn_out.kind = "none"
    /\ IF weather_api_key = "none"
       THEN /\ fn_out' = ToolWithoutKey(fn, fn_in.args)
            /\ UNCHANGED clientVars
       ELSE /\ fn_out' = ToolRunning
            /\ ow' = [ow EXCEPT !["t1"] = EnterGet(NewClient(DefaultMaxRetries, DefaultBackoffMs))]
            /\ trace' = [trace EXCEPT !["t1"] = <<>>]
    /\ UNCHANGED <<weather_api_key, app, fn_in, agentVars>>

CallCityToCoords == CallTool("city_to_coords")

CallGetCurrentWeather == CallTool("get_current_weather")

\* The GET of the tool's _get is answered as the call's provider behaves.
ToolHttpRespond ==
    /\ fn_out.kind = "running"
    /\ ow["t1"].pc = "http"
    /\ ow' = [ow EXCEPT !["t1"] = AfterAttempt(@, ProviderAnswer(fn_in.up))]
    /\ trace' = [trace EXCEPT !["t1"] = Append(@, AttemptEvent(ProviderAnswer(fn_in.up)))]
    /\ UNCHANGED <<weather_api_key, app, fn_in, fn_out, agentVars>>

\* The backoff sleep of the tool's _get ends.
ToolBackoffSleep ==
    /\ fn_out.kind = "running"
    /\ ow["t1"].pc = "sleep"
    /\ ow' = [ow EXCEPT !["t1"] = LoopHead(@)]
    /\ trace' = [trace EXCEPT !["t1"] = Append(@, SleepEvent(ow["t1"].delay))]
    /\ UNCHANGED <<weather_api_key, app, fn_in, fn_out, agentVars>>

\* _get has returned or raised: the tool leaves `async with`, up to the
\* await inside aclose().
ToolExit ==
    /\ fn_out.kind = "running"
    /\ ow["t1"].pc = "done"
    /\ ow["t1"].open
    /\ ow' = [ow EXCEPT !["t1"] = aexit(@)]
    /\ UNCHANGED <<weather_api_key, app, fn_in, fn_out, trace, agentVars>>

\* aclose() has completed: the tool returns its result or lets the exception out.
ToolReturn ==
    /\ fn_out.kind = "running"
    /\ ow["t1"].pc = "done"
    /\ ~ow["t1"].open
    /\ fn_out' = IF fn_in.fn = "city_to_coords"
                 THEN CityTool(weather_api_key, fn_in.args,
                               EndpointResult(ow["t1"].result, fn_in.up))
                 ELSE WeatherTool(weather_api_key, fn_in.args,
                                  EndpointResult(ow["t1"].result, fn_in.up))
    /\ ow' = [ow EXCEPT !["t1"] = NoClient]
    /\ trace' = [trace EXCEPT !["t1"] = <<>>]
    /\ UNCHANGED <<weather_api_key, app, fn_in, agentVars>>

\* get_forecast never reaches an await that suspends it: the constructor
\* raises without a key, and with a key the lookup of forecast_5day raises
\* before any request is made, so the client it closes holds no connection.
CallGetForecast ==
    /\ fn_in.fn = "get_forecast"
    /\ fn_out.kind = "none"
    /\ fn_out' = get_forecast(weather_api_key, fn_in.args, fn_in.up.value, fn_in.now, fn_in.tz)
    /\ UNCHANGED <<weather_api_key, app, fn_in, clientVars, agentVars>>

InitTools ==
    /\ weather_api_key \in {"none", "key"}
    /\ app = AfterStartup(weather_api_key)
    /\ fn_in \in CityCalls \cup WeatherCalls \cup ForecastCalls
    /\ fn_out = NoToolOut
    /\ ow = [t \in Tasks |-> NoClient]
    /\ trace = [t \in Tasks |-> <<>>]
    /\ IdleAgent

NextTools ==
    \/ CallCityToCoords
    \/ CallGetCurrentWeather
    \/ ToolHttpRespond
    \/ ToolBackoffSleep
    \/ ToolExit
    \/ ToolReturn
    \/ CallGetForecast

SpecTools == InitTools /\ [][NextTools]_vars

\* The application from startup to shutdown, serving chat requests one
\* after the other in between.
InitApp ==
    /\ weather_api_key \in {"none", "key"}
    /\ app = Starting
    /\ fn_in = NoToolCall
    /\ fn_out = NoToolOut
    /\ ow = [t \in Tasks |-> NoClient]
    /\ trace = [t \in Tasks |-> <<>>]
    /\ IdleAgent

NextApp ==
    \/ Startup
    \/ Shutdown
    \/ \E m \in UserMessages : app.phase = "serving" /\ Invoke("t1", m)
    \/ \E r \in LoopResponses :
          app.phase = "serving" /\ hist["t1"].queries < MaxQueries /\ LLMRespond("t1", r)
    \/ app.phase = "serving" /\ hist["t1"].queries < MaxQueries /\ LLMFail("t1")
    \/ app.phase = "serving" /\ ToolDispatch("t1")
    \/ \E o \in LoopOutcomes : app.phase = "serving" /\ pc["t1"] = "tool" /\ HttpRespond("t1", o)
    \/ app.phase = "serving" /\ pc["t1"] = "tool" /\ BackoffSleep("t1")
    \/ app.phase = "serving" /\ ToolClose("t1")
    \/ app.phase = "serving" /\ ToolFinish("t1")

SpecApp == InitApp /\ [][NextApp]_vars

(***************************************************************************)
(* Properties of WeatherAgent.invoke                                       *)
(***************************************************************************)

\* The call ids of the Tool Results in a conversation state, in order.
ToolResultIds(msgs) ==
    LET tm == SelectSeq(msgs, LAMBDA m : m.role = "tool")
    IN [i \in 1..Len(tm) |-> tm[i].tool_call_id]

\* The call ids of the requests of a model response, in emission order.
RequestIds(r) == [i \in 1..Len(r.tool_calls) |-> r.tool_calls[i].id]

\* The conversation state of task t is about to be handed to a model query
\* that follows a turn with tool calls.
BeforeNextQuery(t) == pc[t] = "llm" /\ hist[t].queries > 0

\* C1: the conversation state handed to the next model query holds exactly
\* one Tool Result per tool-call request of the turn's response, with the
\* request's call id, in the order the model emitted the requests, whether
\* or not the requested names are in the registry.
C1_OneResultPerRequest ==
    \A t \in Tasks :
        BeforeNextQuery(t) => ToolResultIds(messages[t]) = RequestIds(response[t])

\* What a Tool Result that states the tool is unknown would hold.
StatesUnknownTool(content) == "error" \in DOMAIN content /\ "lat" \notin DOMAIN content
                                 /\ "temp" \notin DOMAIN content

\* C2: a request for a name that is not in the registry is answered by a
\* Tool Result for its call id whose content states that the tool is unknown;
\* the remaining requests of the turn are still handled and the next model
\* query follows.
C2_UnknownToolAnswered ==
    \A t \in Tasks :
        BeforeNextQuery(t) =>
            \A i \in 1..Len(response[t].tool_calls) :
                LET call == response[t].tool_calls[i] IN
                \E j \in 1..Len(messages[t]) :
                    /\ messages[t][j].role = "tool"
                    /\ messages[t][j].tool_call_id = call.id
                    /\ call.name \notin tool_map
                          => StatesUnknownTool(messages[t][j].content)

\* C3: with the provider key configured, whatever the provider answers
\* (exhausted 429/5xx retries, a non-retried 4xx, a transport error), no
\* exception leaves a tool: invoke fails only by a failure of the model query.
C3_OnlyModelFailureFailsInvoke ==
    \A t \in Tasks :
        (weather_api_key = "key" /\ pc[t] = "failed") => retval[t].exc = "LLMError"

\* C4: invoke stops after a bounded number of turns, 8 by default, even when
\* every model response carries tool-call requests.
C4_AtMostEightTurns ==
    \A t \in Tasks : hist[t].queries <= 8

\* C5: invoke returns at the first model response that carries no tool
\* calls: that response is the value returned, every earlier response of the
\* invocation carried tool calls (so a first response without tool calls is
\* returned after exactly one query), no tool was executed after it and no
\* model query follows it.
C5_ReturnsAtFirstFinalResponse ==
    \A t \in Tasks :
        /\ pc[t] = "returned" =>
              /\ retval[t] = [kind |-> "return", value |-> response[t], exc |-> None]
              /\ response[t].tool_calls = <<>>
              /\ hist[t].queries = hist[t].toolTurns + 1
              /\ hist[t].queries = hist[t].endQueries
              /\ hist[t].turnExecs = 0
        /\ (response[t].role = "ai" /\ response[t].tool_calls = <<>>) => pc[t] = "returned"

C5_Witness ==
    /\ pc["t1"] = "returned"
    /\ hist["t1"].queries = 1
    /\ hist["t1"].turnExecs = 0
    /\ retval["t1"].value.tool_calls = <<>>

\* C6: a failure of the model query ends the invocation with that error: it
\* is not retried (one failed query at most), and no model query or tool
\* execution follows it.
C6_ModelFailureIsFinal ==
    \A t \in Tasks :
        hist[t].llmErrors > 0 =>
            /\ pc[t] = "failed"
            /\ retval[t].kind = "raise" /\ retval[t].exc = "LLMError"
            /\ hist[t].llmErrors = 1
            /\ hist[t].queries = hist[t].endQueries
            /\ hist[t].turnExecs = hist[t].endExecs

C6_Witness ==
    /\ pc["t1"] = "failed"
    /\ hist["t1"].llmErrors = 1
    /\ hist["t1"].queries = 2
    /\ hist["t1"].turnExecs > 0

RECURSIVE SumUsage(_, _, _)
SumUsage(S, count, field) ==
    IF S = {} THEN 0
    ELSE LET u == CHOOSE x \in S : TRUE
         IN count[u] * u[field] + SumUsage(S \ {u}, count, field)

\* The sum of the usage counters of every model query of task t's invocation.
QueriedUsage(t) ==
    [input_tokens |-> SumUsage(Usages, hist[t].usages, "input_tokens"),
     output_tokens |-> SumUsage(Usages, hist[t].usages, "output_tokens"),
     total_tokens |-> SumUsage(Usages, hist[t].usages, "total_tokens")]

\* C7: the usage counts that invoke returns to its caller are the sums of
\* the usage counters of every model query of the invocation.
C7_ReturnedTallyIsSum ==
    \A t \in Tasks :
        pc[t] = "returned" => retval[t].value.usage_metadata = QueriedUsage(t)

\* The tally that invoke accumulates (and prints before it returns) is that sum.
TallyIsSum ==
    \A t \in Tasks :
        pc[t] \in {"returned", "tools", "tool", "closing"} =>
            /\ tokens[t].input = QueriedUsage(t).input_tokens
            /\ tokens[t].output = QueriedUsage(t).output_tokens
            /\ tokens[t].total = QueriedUsage(t).total_tokens

(***************************************************************************)
(* Properties of OpenWeatherClient._get                                    *)
(***************************************************************************)

Attempts(tr) == SelectSeq(tr, LAMBDA e : e.ev = "attempt")
Sleeps(tr) == SelectSeq(tr, LAMBDA e : e.ev = "sleep")

RetriedStatus(e) == e.exc = None /\ (e.status = 429 \/ e.status \in 500..599)
PermanentStatus(e) ==
    e.exc = None /\ e.status \notin 200..299 /\ e.status # 429 /\ e.status \notin 500..599

\* C8: _get makes at most max_retries attempts; a call whose every attempt
\* was answered 429 or 5xx has made exactly max_retries attempts when it
\* ends, and ends with the HTTP status error of the last response.
C8_AttemptsBounded ==
    \A t \in Tasks :
        LET att == Attempts(trace[t]) IN
        /\ ow[t].open => Len(att) <= ow[t].max_retries
        /\ (ow[t].pc = "done" /\ \A i \in 1..Len(att) : RetriedStatus(att[i])) =>
              /\ Len(att) = ow[t].max_retries
              /\ ow[t].result = [kind |-> "raise", exc |-> "HTTPStatusError",
                                  status |-> att[Len(att)].status, body |-> None]

C8_Witness ==
    /\ ow["t1"].max_retries = 3
    /\ ow["t1"].pc = "done"
    /\ Len(Attempts(trace["t1"])) = 3
    /\ \A i \in 1..3 : Attempts(trace["t1"])[i].status = 503
    /\ ow["t1"].result.exc = "HTTPStatusError" /\ ow["t1"].result.status = 503

\* C9: an attempt answered by a non-2xx status other than 429 and 5xx is the
\* last event of its call: no sleep and no attempt follows it, and the call
\* has failed with the HTTP status error of that response.
C9_PermanentStatusFailsAtOnce ==
    \A t \in Tasks :
        \A i \in 1..Len(trace[t]) :
            (trace[t][i].ev = "attempt" /\ PermanentStatus(trace[t][i])) =>
                /\ i = Len(trace[t])
                /\ ow[t].pc = "done"
                /\ ow[t].result = [kind |-> "raise", exc |-> "HTTPStatusError",
                                    status |-> trace[t][i].status, body |-> None]

C9_Witness ==
    /\ ow["t1"].max_retries = 3
    /\ Len(trace["t1"]) = 1
    /\ trace["t1"][1].status = 404
    /\ ow["t1"].attempt = 1
    /\ ow["t1"].pc = "done"

\* An attempt answered by a 2xx status.
SuccessfulResponse(e) == e.ev = "attempt" /\ e.exc = None /\ e.status \in 200..299

\* The sleeps of a call so far: those that have ended and the one under way.
SleepsBegun(t) == Len(Sleeps(trace[t])) + (IF ow[t].pc = "sleep" THEN 1 ELSE 0)

\* C22: a backoff sleep happens only between two attempts: attempts and
\* sleeps alternate starting with an attempt, a call that has ended has slept
\* once less than it has attempted and its last event is an attempt, and an
\* attempt answered by a 2xx status is the last event of its call.
C22_SleepOnlyBetweenAttempts ==
    \A t \in Tasks :
        LET tr == trace[t] IN
        /\ \A i \in 1..Len(tr) : tr[i].ev = (IF i % 2 = 1 THEN "attempt" ELSE "sleep")
        /\ ow[t].pc = "done" =>
              /\ tr # <<>>
              /\ tr[Len(tr)].ev = "attempt"
              /\ SleepsBegun(t) = Len(Attempts(tr)) - 1
        /\ ow[t].pc = "sleep" => SleepsBegun(t) = Len(Attempts(tr))
        /\ ow[t].pc = "http" => SleepsBegun(t) = Len(Attempts(tr))
        /\ \A i \in 1..Len(tr) :
              SuccessfulResponse(tr[i]) => (i = Len(tr) /\ ow[t].pc = "done")

\* A call of three attempts has ended: 503, sleep, 503, sleep, 200.
C22_Witness ==
    /\ ow["t1"].pc = "done"
    /\ Len(trace["t1"]) = 5
    /\ Len(Sleeps(trace["t1"])) = 2
    /\ trace["t1"][1].status = 503 /\ trace["t1"][3].status = 503
    /\ SuccessfulResponse(trace["t1"][5])
    /\ ow["t1"].result.kind = "return"

\* The transport-level failures the claim names: connection error, read
\* timeout, write timeout, protocol error.
NamedTransportFailures == {"ConnectError", "ReadTimeout", "WriteTimeout", "RemoteProtocolError"}

\* The number of the attempt that is event i of a trace.
AttemptNo(tr, i) == Len(Attempts(SubSeq(tr, 1, i)))

\* C10: an attempt that fails at transport level is followed by a backoff
\* sleep and a further attempt while attempts remain, and ends the call with
\* that error only when it is attempt number max_retries.
C10_TransportFailureRetried ==
    \A t \in Tasks :
        \A i \in 1..Len(trace[t]) :
            (trace[t][i].ev = "attempt" /\ trace[t][i].exc \in NamedTransportFailures) =>
                IF AttemptNo(trace[t], i) < ow[t].max_retries
                THEN IF i = Len(trace[t])
                     THEN ow[t].pc = "sleep"
                     ELSE trace[t][i + 1].ev = "sleep"
                ELSE /\ i = Len(trace[t])
                     /\ ow[t].pc = "done"
                     /\ ow[t].result.kind = "raise"
                     /\ ow[t].result.exc = trace[t][i].exc

\* The tool calls of a response that the loop handles: those whose name
\* the registry resolves.
HandledCalls(r) == SelectSeq(r.tool_calls, LAMBDA c : c.name \in tool_map)

\* C15: every model query starts with the system message and the original
\* user message; after a turn with tool calls the conversation is exactly
\* those two, the response of that turn, and for each handled call in order
\* its tool-specific guidance message immediately followed by its result.
C15_RebuiltConversation ==
    \A t \in Tasks :
        pc[t] = "llm" =>
            /\ Len(messages[t]) >= 2
            /\ messages[t][1] = SystemMessage(system_prompt)
            /\ messages[t][2] = HumanMessage(message[t])
            /\ hist[t].queries = 0 => Len(messages[t]) = 2
            /\ hist[t].queries > 0 =>
                  LET h == HandledCalls(response[t]) IN
                  /\ Len(messages[t]) = 3 + 2 * Len(h)
                  /\ messages[t][3] = response[t]
                  /\ response[t].tool_calls # <<>>
                  /\ \A i \in 1..Len(h) :
                        /\ messages[t][2 + 2 * i] = SystemMessage("guidance for " \o h[i].name)
                        /\ messages[t][3 + 2 * i].role = "tool"
                        /\ messages[t][3 + 2 * i].tool_call_id = h[i].id

\* A turn with two handled calls has been rebuilt and the next query is due.
C15_Witness ==
    /\ pc["t1"] = "llm"
    /\ hist["t1"].queries > 0
    /\ Len(HandledCalls(response["t1"])) = 2
    /\ Len(messages["t1"]) = 7
    /\ messages["t1"][5].tool_call_id # messages["t1"][7].tool_call_id

\* The three tools of the specification: coordinate lookup, current
\* conditions lookup, forecast lookup.
SpecifiedTools == {"city_to_coords", "get_current_weather", "get_forecast"}

\* C16: the registry resolves each of the three specified tool names, so
\* every request of a turn for one of them, the forecast tool included, is
\* executed: the turn runs as many tools as it has such requests.
C16_RegistryResolvesSpecifiedTools ==
    \A t \in Tasks :
        BeforeNextQuery(t) =>
            hist[t].turnExecs =
                Len(SelectSeq(response[t].tool_calls, LAMBDA c : c.name \in SpecifiedTools))

(***************************************************************************)
(* Properties of the tools                                                 *)
(***************************************************************************)

\* A tool has been called on its own with the provider key configured, and
\* has returned or raised.
ToolCalled(fn) ==
    fn_in.fn = fn /\ weather_api_key = "key" /\ fn_out.kind \in {"return", "raise"}

\* The provider timestamps of a list that fall in [from, from + 24h)
TimestampsWithin(list, from) ==
    LET sel == SelectSeq(list, LAMBDA e : from <= e.dt /\ e.dt < from + 24)
    IN [i \in 1..Len(sel) |-> sel[i].dt]

\* C17: get_forecast with timeframe "tomorrow" and a non-empty provider list
\* returns a success result whose entries are exactly the provider entries
\* with timestamp in [next midnight, next midnight + 24h), in provider
\* order, and whose count is the number of entries.
C17_TomorrowEntries ==
    (/\ ToolCalled("get_forecast")
     /\ fn_in.args.timeframe = "tomorrow"
     /\ fn_in.up.value.list # <<>>)
    => /\ fn_out.kind = "return"
       /\ "error" \notin DOMAIN fn_out.value
       /\ fn_out.value.count = Len(fn_out.value.entries)
       /\ [i \in 1..Len(fn_out.value.entries) |-> fn_out.value.entries[i].timestamp]
             = TimestampsWithin(fn_in.up.value.list, MidnightOf(fn_in.now + 24))

\* The fields of a tool's success result.
SuccessFields(fn) ==
    IF fn = "city_to_coords" THEN {"lat", "lon", "normalized_name"}
    ELSE {"temp", "temp_unit", "feels_like", "condition", "description", "wind_speed",
          "wind_unit", "wind_deg", "humidity", "clouds", "pressure", "visibility"}

\* C18: when the upstream call of a tool fails, the tool returns an
\* error-tagged result with every field of its success result, set to null.
C18_ErrorResultHasSuccessShape ==
    \A fn \in {"city_to_coords", "get_current_weather"} :
        (ToolCalled(fn) /\ fn_in.up.kind = "raise")
        => /\ fn_out.kind = "return"
           /\ "error" \in DOMAIN fn_out.value
           /\ \A k \in SuccessFields(fn) : k \in DOMAIN fn_out.value /\ fn_out.value[k] = None

\* The parts of a place that are present: there, and neither null nor empty.
PresentParts(place) ==
    SelectSeq(<<"name", "state", "country">>,
              LAMBDA k : k \in DOMAIN place /\ place[k] \notin {None, ""})

\* The pieces of the parts joined with ", " between them.
JoinParts(place, parts) ==
    [i \in 1..(IF parts = <<>> THEN 0 ELSE 2 * Len(parts) - 1) |->
        IF i % 2 = 1 THEN place[parts[(i + 1) \div 2]] ELSE ", "]

\* C19: normalized_name is the present parts among name, state and country
\* joined with ", ": no leading, trailing or doubled separator, whichever
\* parts are absent.  (Places with a null name are left out here.)
C19_NormalizedNameJoinsPresentParts ==
    (/\ ToolCalled("city_to_coords")
     /\ fn_in.up.kind = "json"
     /\ fn_in.up.value # <<>>
     /\ Get(fn_in.up.value[1], "name", "") # None)
    => /\ fn_out.kind = "return"
       /\ fn_out.value.normalized_name
             = JoinParts(fn_in.up.value[1], PresentParts(fn_in.up.value[1]))

\* The sub-field k of the top-level field f of a current-weather document,
\* null when the field or the sub-field is missing; for the weather list the
\* sub-field of its first element, null when the list is empty.
UpstreamField(raw, f, k) ==
    IF f \notin DOMAIN raw THEN None
    ELSE IF f = "weather"
         THEN IF raw[f] = <<>> \/ k \notin DOMAIN raw[f][1] THEN None ELSE raw[f][1][k]
         ELSE IF k \notin DOMAIN raw[f] THEN None ELSE raw[f][k]

\* C20: get_current_weather on a successful provider response with any
\* subset of the upstream fields missing (an empty weather list included)
\* returns the success-shaped mapping with each missing field null, never an
\* exception or an error result.
C20_MissingFieldsAreNull ==
    (ToolCalled("get_current_weather") /\ fn_in.up.kind = "json")
    => LET raw == fn_in.up.value
           v == fn_out.value
       IN /\ fn_out.kind = "return"
          /\ "error" \notin DOMAIN v
          /\ DOMAIN v = SuccessFields("get_current_weather")
          /\ v.temp = UpstreamField(raw, "main", "temp")
          /\ v.feels_like = UpstreamField(raw, "main", "feels_like")
          /\ v.humidity = UpstreamField(raw, "main", "humidity")
          /\ v.pressure = UpstreamField(raw, "main", "pressure")
          /\ v.condition = UpstreamField(raw, "weather", "main")
          /\ v.description = UpstreamField(raw, "weather", "description")
          /\ v.wind_speed = UpstreamField(raw, "wind", "speed")
          /\ v.wind_deg = UpstreamField(raw, "wind", "deg")
          /\ v.clouds = UpstreamField(raw, "clouds", "all")
          /\ v.visibility = Get(raw, "visibility", None)

\* The number of messages of a conversation state with the given role.
CountRole(msgs, role) == Len(SelectSeq(msgs, LAMBDA m : m.role = role))

\* C21: the rebuild of each turn drops the history: during a turn and at the
\* next model query the conversation holds one model response, that of the
\* current turn, at most one Tool Result per tool call of that response, and
\* at most 3 + 2 * (tool calls of that response) messages, however many
\* turns have run before.
C21_RebuildDropsHistory ==
    \A t \in Tasks :
        (pc[t] \in {"tools", "tool", "closing"} \/ BeforeNextQuery(t)) =>
            /\ Len(messages[t]) <= 3 + 2 * Len(response[t].tool_calls)
            /\ CountRole(messages[t], "ai") = 1
            /\ messages[t][3] = response[t]
            /\ CountRole(messages[t], "tool") <= Len(response[t].tool_calls)
            /\ CountRole(messages[t], "human") = 1

\* The third model query is due after two turns with tool calls; the
\* second turn made one call and the conversation holds its result only.
C21_Witness ==
    /\ BeforeNextQuery("t1")
    /\ hist["t1"].toolTurns = 2
    /\ Len(response["t1"].tool_calls) = 1
    /\ Len(messages["t1"]) = 5
    /\ CountRole(messages["t1"], "tool") = 1

(***************************************************************************)
(* Properties of concurrent invocations                                    *)
(***************************************************************************)

\* Everything one invocation holds: its locals in invoke, its client and
\* the attempts of its _get call.
TaskState(t) ==
    <<ow[t], trace[t], pc[t], message[t], messages[t], tokens[t], response[t], callIdx[t],
      retval[t], hist[t]>>

\* The state of an invocation is what its own inputs make it: the
\* conversation starts with its own user message, the tally is the sum over
\* its own model queries, the attempt counter counts its own attempts.
OwnInputsOnly(t) ==
    /\ pc[t] # "idle" =>
          /\ Len(messages[t]) >= 2
          /\ messages[t][2] = HumanMessage(message[t])
    /\ pc[t] \in {"returned", "tools", "tool", "closing"} =>
          /\ tokens[t].input = QueriedUsage(t).input_tokens
          /\ tokens[t].output = QueriedUsage(t).output_tokens
          /\ tokens[t].total = QueriedUsage(t).total_tokens
    /\ ow[t].open =>
          ow[t].attempt = Len(Attempts(trace[t])) + (IF ow[t].pc = "http" THEN 1 ELSE 0)

\* C14: concurrent invocations do not interfere: every step between two
\* suspension points changes the state of one invocation only, and leaves
\* each invocation's conversation, tally and attempt counter determined by
\* its own user message, model responses and upstream responses.
C14_NoInterference ==
    [][/\ \E t \in Tasks : \A u \in Tasks \ {t} : TaskState(u)' = TaskState(u)
       /\ \A t \in Tasks : OwnInputsOnly(t)']_vars

\* Both invocations are inside _get at once, at different attempts, with
\* different user messages and different tallies.
C14_Witness ==
    /\ pc["t1"] = "tool" /\ pc["t2"] = "tool"
    /\ ow["t1"].open /\ ow["t2"].open
    /\ ow["t1"].attempt = 2 /\ ow["t2"].attempt = 1
    /\ message["t1"] # message["t2"]
    /\ tokens["t1"] # tokens["t2"]

(***************************************************************************)
(* Properties of the client's lifecycle                                    *)
(***************************************************************************)

\* C23: every client that a tool opens is closed by the time that tool
\* invocation ends, whether the upstream call returned or raised: a client
\* is open only while its tool is running, and none is open between tool
\* invocations, between turns, or once invoke has returned or failed.
C23_ToolClientsAreClosed ==
    \A t \in Tasks :
        /\ ow[t].open => pc[t] = "tool"
        /\ pc[t] = "closing" => (~ow[t].open /\ ow[t].pc = "done")
        /\ pc[t] \in {"idle", "llm", "tools", "returned", "failed"} => ow[t] = NoClient

\* A tool's upstream call has raised an HTTP status error, the exception has
\* left the tool and invoke, and the tool's client is closed.
C23_Witness ==
    /\ pc["t1"] = "failed"
    /\ retval["t1"].exc = "HTTPStatusError"
    /\ hist["t1"].turnExecs >= 1
    /\ ~ow["t1"].open


\* C13: the HTTP client is one long-lived instance: opened once at startup,
\* closed once at shutdown, and no chat request or tool invocation opens or
\* closes a client of its own.
C13_SingleLongLivedClient ==
    /\ app.opened <= 1
    /\ app.closed <= app.opened
    /\ (app.phase = "serving" /\ weather_api_key = "key") => (app.opened = 1 /\ app.closed = 0)
    /\ app.phase = "stopped" => app.closed = app.opened
    /\ \A t \in Tasks : ~ow[t].open

\* What float() makes of the numeric Retry-After values, in milliseconds.
NumericRetryAfterMs(ra) == IF ra = "10" THEN 10000 ELSE IF ra = "0.2" THEN 200 ELSE -1

\* The delay the claim gives for the sleep that follows attempt number k
\* answered by event e, with backoff factor f (milliseconds).
ClaimedDelay(f, k, e) ==
    LET exponential == f * (2 ^ (k - 1))
    IN IF e.exc = None /\ e.status = 429 /\ NumericRetryAfterMs(e.retry_after) >= 0
       THEN IF NumericRetryAfterMs(e.retry_after) > exponential
            THEN NumericRetryAfterMs(e.retry_after) ELSE exponential
       ELSE exponential

\* C11: every backoff sleep lasts backoff_factor * 2^(attempt-1), except
\* after a 429 with a numeric Retry-After, where it lasts the larger of the
\* header value and that exponential value; a non-numeric Retry-After, or a
\* Retry-After on another status, changes nothing.
C11_DelayIsExponentialOrRetryAfter ==
    \A t \in Tasks :
        /\ \A i \in 2..Len(trace[t]) :
              trace[t][i].ev = "sleep" =>
                  /\ trace[t][i - 1].ev = "attempt"
                  /\ trace[t][i].delay =
                        ClaimedDelay(ow[t].backoff_factor, AttemptNo(trace[t], i - 1),
                                     trace[t][i - 1])
        /\ (ow[t].pc = "sleep" /\ trace[t] # <<>>) =>
              ow[t].delay = ClaimedDelay(ow[t].backoff_factor, ow[t].attempt,
                                         trace[t][Len(trace[t])])

\* Factor 0.5 s: 10 s after a 429 with Retry-After 10 at attempt 1, 1 s after
\* a 503 carrying Retry-After 10 at attempt 2, 2 s after attempt 3.
C11_Witness ==
    /\ ow["t1"].backoff_factor = 500
    /\ Len(trace["t1"]) = 6
    /\ trace["t1"][1].status = 429 /\ trace["t1"][1].retry_after = "10"
    /\ trace["t1"][2].delay = 10000
    /\ trace["t1"][3].status = 503 /\ trace["t1"][3].retry_after = "10"
    /\ trace["t1"][4].delay = 1000
    /\ trace["t1"][5].status = 429 /\ trace["t1"][5].retry_after = "soon"
    /\ trace["t1"][6].delay = 2000

\* C12: whatever max_retries the client was constructed with, a call of _get
\* that has ended has made at least one attempt; constructed with
\* max_retries <= 1 it makes exactly one attempt and never sleeps.
C12_AttemptFloorIsOne ==
    \A t \in Tasks :
        ow[t].open =>
            /\ ow[t].max_retries >= 1
            /\ ow[t].pc = "done" => Len(Attempts(trace[t])) >= 1
            /\ ow[t].max_retries_arg <= 1 =>
                  /\ Len(Attempts(trace[t])) <= 1
                  /\ Sleeps(trace[t]) = <<>>
                  /\ ow[t].pc # "sleep"
                  /\ ow[t].pc = "done" => Len(Attempts(trace[t])) = 1

C12_Witness ==
    /\ ow["t1"].open
    /\ ow["t1"].max_retries_arg = -1
    /\ ow["t1"].pc = "done"
    /\ Len(trace["t1"]) = 1
    /\ trace["t1"][1].status = 503

====
